---------------------------- MODULE Spec2Model ----------------------------
(***************************************************************************)
(* Model of homework.py: a bot that polls the homework-review API and      *)
(* relays verdict changes to a Telegram chat.                              *)
(*                                                                         *)
(* Python values are tagged records; a call either returns a value or      *)
(* raises an exception, and both are records as well.  The Russian texts   *)
(* of the source are transliterated to ASCII, one text per source text.    *)
(***************************************************************************)
EXTENDS FiniteSets, Integers, Sequences, TLC

(***************************************************************************)
(* Bounds of the model.                                                    *)
(***************************************************************************)
\* longest homework list a poll returns
MaxHomeworks == 2

(***************************************************************************)
(* Python values.                                                          *)
(***************************************************************************)
PyNone == [t |-> "NoneType"]
PyStr(s) == [t |-> "str", s |-> s]
PyInt(i) == [t |-> "int", i |-> i]
PyList(l) == [t |-> "list", l |-> l]
PyDict(d) == [t |-> "dict", d |-> d]

\* bool(x) of a value
Truthy(x) ==
    CASE x.t = "NoneType" -> FALSE
      [] x.t = "str" -> x.s # ""
      [] x.t = "int" -> x.i # 0
      [] x.t = "list" -> x.l # <<>>
      [] x.t = "dict" -> DOMAIN x.d # {}

\* str(x) of a string or an integer, as an f-string formats it
Format(x) ==
    CASE x.t = "str" -> x.s
      [] x.t = "int" -> ToString(x.i)
      [] x.t = "NoneType" -> "None"

Contains(s, sub) ==
    \E i \in 1..(Len(s) - Len(sub) + 1) : SubSeq(s, i, i + Len(sub) - 1) = sub

\* repr(s) of a string without escapes
Repr(s) ==
    IF Contains(s, "'") /\ ~Contains(s, "\"")
    THEN "\"" \o s \o "\""
    ELSE "'" \o s \o "'"

RECURSIVE JoinRepr(_)
JoinRepr(names) ==
    IF names = <<>> THEN ""
    ELSE IF Len(names) = 1 THEN Repr(names[1])
    ELSE Repr(names[1]) \o ", " \o JoinRepr(Tail(names))

\* str(l) of a list of strings
ListRepr(names) == "[" \o JoinRepr(names) \o "]"

(***************************************************************************)
(* Calls: a returned value or a raised exception.                          *)
(***************************************************************************)
Return(v) == [raised |-> FALSE, val |-> v]
Raise(cls, msg) == [raised |-> TRUE, cls |-> cls, msg |-> msg]

\* the exception classes of exceptions.py: plain subclasses of Exception
ExceptionsModule ==
    [MissTokenError |-> {"Exception"},
     VerdictErrors |-> {"Exception"},
     ResponseError |-> {"Exception"}]

\* the direct bases of the library exception classes the program names or
\* receives.  response.json() raises, by requests version and by whether
\* simplejson is installed, json's JSONDecodeError, simplejson's, or the
\* requests class derived from one of them.
LibraryBases ==
    [Exception |-> {},
     TypeError |-> {"Exception"},
     KeyError |-> {"Exception"},
     ValueError |-> {"Exception"},
     AttributeError |-> {"Exception"},
     OSError |-> {"Exception"},
     JSONDecodeError |-> {"ValueError"},
     SimplejsonJSONDecodeError |-> {"ValueError"},
     RequestException |-> {"OSError"},
     InvalidJSONError |-> {"RequestException"},
     RequestsJSONDecodeError |-> {"InvalidJSONError", "JSONDecodeError"},
     RequestsSimplejsonJSONDecodeError |->
         {"InvalidJSONError", "SimplejsonJSONDecodeError"},
     HTTPError |-> {"RequestException"},
     Timeout |-> {"RequestException"},
     ConnectionError |-> {"RequestException"},
     TelegramError |-> {"Exception"},
     NetworkError |-> {"TelegramError"},
     InvalidToken |-> {"TelegramError"}]

Bases(cls) ==
    IF cls \in DOMAIN ExceptionsModule THEN ExceptionsModule[cls]
    ELSE LibraryBases[cls]

\* issubclass(cls, base)
RECURSIVE IsSubclass(_, _)
IsSubclass(cls, base) ==
    cls = base \/ \E b \in Bases(cls) : IsSubclass(b, base)

\* type(e).__name__
ClassName(cls) ==
    CASE cls \in {"RequestsJSONDecodeError", "SimplejsonJSONDecodeError",
                  "RequestsSimplejsonJSONDecodeError"} -> "JSONDecodeError"
      [] OTHER -> cls

\* str(e) of an exception: KeyError shows the repr of its argument
StrOfExc(e) == IF e.cls = "KeyError" THEN Repr(e.msg) ELSE e.msg

\* `raise error(...)` where error is the caught exception instance: calling
\* the instance raises TypeError, which is what leaves the except clause
RaiseCalledInstance(e) ==
    Raise("TypeError", "'" \o ClassName(e.cls) \o "' object is not callable")

(***************************************************************************)
(* Module constants.                                                       *)
(***************************************************************************)
TOKENS_NAMES == <<"PRACTICUM_TOKEN", "TELEGRAM_TOKEN", "TELEGRAM_CHAT_ID">>
RETRY_PERIOD == 600
ENDPOINT == "https://practicum.yandex.ru/api/user_api/homework_statuses/"
HOMEWORK_VERDICTS ==
    [approved |-> "Rabota proverena: revyueru vsyo ponravilos. Ura!",
     reviewing |-> "Rabota vzyata na proverku revyuerom.",
     rejected |-> "Rabota proverena: u revyuera est zamechaniya."]
\* HTTPStatus.OK
HTTP_OK == 200

(***************************************************************************)
(* check_tokens: tokens is the list of the three environment values.       *)
(***************************************************************************)
check_tokens_unset_only(tokens) ==
    IF \A i \in 1..Len(tokens) : tokens[i] # PyNone
    THEN Return(PyNone)
    ELSE LET Unset(n) == \E i \in 1..Len(tokens) :
                             TOKENS_NAMES[i] = n /\ tokens[i] = PyNone
         IN Raise("MissTokenError",
                  "Otsutstvuyut tokeny: "
                      \o ListRepr(SelectSeq(TOKENS_NAMES, Unset)))

\* [TOKENS_NAMES[i] for i, x in enumerate(tokens) if not x], from index i on
RECURSIVE NoneTokens(_, _)
NoneTokens(tokens, i) ==
    IF i > Len(tokens) THEN <<>>
    ELSE (IF Truthy(tokens[i]) THEN <<>> ELSE <<TOKENS_NAMES[i]>>)
         \o NoneTokens(tokens, i + 1)

check_tokens(tokens) ==
    IF \A i \in 1..Len(tokens) : Truthy(tokens[i])
    THEN Return(PyNone)
    ELSE Raise("MissTokenError",
               "Otsutstvuyut tokeny: " \o ListRepr(NoneTokens(tokens, 1)))

(***************************************************************************)
(* send_message: backend is what bot.send_message does, "ok" or the class  *)
(* of the TelegramError it raises.                                         *)
(***************************************************************************)
send_message(backend, message) ==
    IF backend = "ok" THEN Return(PyNone)
    ELSE IF IsSubclass(backend, "TelegramError")
    THEN RaiseCalledInstance(Raise(backend, backend))
    ELSE Raise(backend, backend)

(***************************************************************************)
(* get_api_answer: http is what requests.get and response.json() do.       *)
(*   [t |-> "raise", cls |-> c]      requests.get raises an exception of   *)
(*                                   class c                               *)
(*   [t |-> "response", status_code |-> n, json |-> j]                     *)
(*                                   j is the parsed body, or              *)
(*                                   [t |-> "undecodable", cls |-> c] when *)
(*                                   response.json() raises class c        *)
(***************************************************************************)
\* the body of the try statement, lines 69-83
TryGetApiAnswer(timestamp, http) ==
    IF http.t = "raise" THEN Raise(http.cls, http.cls)
    ELSE IF http.status_code # HTTP_OK
    THEN Raise("ResponseError",
               "Nevernyi otvet " \o ENDPOINT \o ": " \o ToString(http.status_code))
    ELSE IF http.json.t = "undecodable"
    THEN Raise(http.json.cls, "Expecting value: line 1 column 1 (char 0)")
    ELSE LET response == http.json IN
         IF response.t # "dict"
         THEN Raise("AttributeError",
                    "'" \o response.t \o "' object has no attribute 'keys'")
         ELSE IF "error" \in DOMAIN response.d
         THEN Raise("ResponseError",
                    "Nevernyi otvet " \o ENDPOINT \o ": "
                        \o Format(response.d["error"]))
         ELSE IF "code" \in DOMAIN response.d
         THEN Raise("ResponseError",
                    "Nevernyi otvet " \o ENDPOINT \o ": "
                        \o Format(response.d["code"]))
         ELSE Return(response)

\* JSONDecodeError(msg) without doc and pos
JSONDecodeErrorMissingArgs ==
    Raise("TypeError",
          "JSONDecodeError.__init__() missing 2 required positional "
              \o "arguments: 'doc' and 'pos'")

get_api_answer_ignores_status(timestamp, http) ==
    IF http.t = "raise" THEN RaiseCalledInstance(Raise(http.cls, http.cls))
    ELSE IF http.json.t = "undecodable" THEN JSONDecodeErrorMissingArgs
    ELSE IF http.json.t # "dict"
    THEN Raise("AttributeError",
               "'" \o http.json.t \o "' object has no attribute 'keys'")
    ELSE IF "error" \in DOMAIN http.json.d
    THEN Raise("ResponseError",
               "Nevernyi otvet " \o ENDPOINT \o ": "
                   \o Format(http.json.d["error"]))
    ELSE Return(http.json)

get_api_answer(timestamp, http) ==
    LET r == TryGetApiAnswer(timestamp, http) IN
    IF ~r.raised THEN r
    ELSE IF IsSubclass(r.cls, "JSONDecodeError") THEN JSONDecodeErrorMissingArgs
    ELSE IF IsSubclass(r.cls, "HTTPError") THEN RaiseCalledInstance(r)
    ELSE IF IsSubclass(r.cls, "Timeout") THEN RaiseCalledInstance(r)
    ELSE IF IsSubclass(r.cls, "ConnectionError") THEN RaiseCalledInstance(r)
    ELSE IF IsSubclass(r.cls, "RequestException") THEN RaiseCalledInstance(r)
    ELSE r

(***************************************************************************)
(* check_response                                                          *)
(***************************************************************************)
check_response_any_homeworks(response) ==
    IF response.t # "dict"
    THEN Raise("TypeError", "Poluchennye otvet ot API ne yavlyaetsya slovarem")
    ELSE IF "homeworks" \notin DOMAIN response.d
    THEN Raise("KeyError",
               "Otsutstvie ozhidaemykh klyuchei v otvete API: <class 'KeyError'>")
    ELSE Return(response.d["homeworks"])

check_response(response) ==
    IF response.t # "dict"
    THEN Raise("TypeError", "Poluchennye otvet ot API ne yavlyaetsya slovarem")
    ELSE IF "homeworks" \notin DOMAIN response.d
    THEN Raise("KeyError",
               "Otsutstvie ozhidaemykh klyuchei v otvete API: <class 'KeyError'>")
    ELSE IF response.d["homeworks"].t # "list"
    THEN Raise("TypeError", "Znachenie pod klyuchem homeworks ne list")
    ELSE Return(response.d["homeworks"])

(***************************************************************************)
(* parse_status: homework is a dict.                                       *)
(***************************************************************************)
parse_status_looks_up_status_first(homework) ==
    IF "status" \notin DOMAIN homework.d
    THEN Raise("KeyError",
               "Otsutstvie neobkhodimykh klyuchei status i homework_name")
    ELSE IF homework.d["status"].s \notin DOMAIN HOMEWORK_VERDICTS
    THEN Raise("VerdictErrors",
               "Neozhidannyi status domashnei raboty,"
                   \o "obnaruzhennyi v otvete API "
                   \o Format(homework.d["status"]))
    ELSE IF "homework_name" \notin DOMAIN homework.d
    THEN Raise("KeyError",
               "Otsutstvie neobkhodimykh klyuchei status i homework_name")
    ELSE Return(PyStr("Izmenilsya status proverki raboty \""
                          \o Format(homework.d["homework_name"]) \o "\". "
                          \o HOMEWORK_VERDICTS[homework.d["status"].s]))

parse_status(homework) ==
    IF "status" \notin DOMAIN homework.d \/ "homework_name" \notin DOMAIN homework.d
    THEN Raise("KeyError",
               "Otsutstvie neobkhodimykh klyuchei status i homework_name")
    ELSE LET status == homework.d["status"]
             homework_name == homework.d["homework_name"]
         IN IF status.s \in DOMAIN HOMEWORK_VERDICTS
            THEN LET verdict == HOMEWORK_VERDICTS[status.s] IN
                 Return(PyStr("Izmenilsya status proverki raboty \""
                                  \o Format(homework_name) \o "\". " \o verdict))
            ELSE Raise("VerdictErrors",
                       "Neozhidannyi status domashnei raboty,"
                           \o "obnaruzhennyi v otvete API " \o Format(status))

(***************************************************************************)
(* Inputs: what the environment, the API and the messaging backend can do. *)
(***************************************************************************)
\* os.getenv: unset, empty or set
TokenValues == {PyNone, PyStr(""), PyStr("secret")}

\* datetime.date.today(), in days since the epoch
Days == {20000}

\* the zone of the process: seconds east of UTC that its local time is at
\* the midnight the timestamp is taken at (UTC, Europe/Moscow,
\* America/New_York in summer)
ZoneOffsets == {0, 10800, -14400}

\* int(time.mktime(d.timetuple())) of a date d, days since the epoch: the
\* seconds since the epoch at midnight of d in the local zone
mktime(d, offset) == d * 86400 - offset

StatusValues == {"approved", "reviewing", "rejected", "unknown"}
NameValues == {"hw1", "hw2"}

EmptyDict == [k \in {} |-> PyNone]

\* homework records, with and without the two keys parse_status reads
HomeworkRecords ==
    {PyDict([status |-> PyStr(s), homework_name |-> PyStr(n)]) :
         s \in StatusValues, n \in NameValues}
    \cup {PyDict([status |-> PyStr(s)]) : s \in StatusValues}
    \cup {PyDict([homework_name |-> PyStr(n)]) : n \in NameValues}
    \cup {PyDict(EmptyDict)}

\* the records that follow the first one in a list
LaterRecords ==
    {PyDict([status |-> PyStr("approved"), homework_name |-> PyStr("hw2")]),
     PyDict([status |-> PyStr("unknown"), homework_name |-> PyStr("hw1")]),
     PyDict([status |-> PyStr("rejected")])}

HomeworkLists ==
    UNION {{l \in [1..n -> HomeworkRecords \cup LaterRecords] :
               /\ n > 0 => l[1] \in HomeworkRecords
               /\ \A i \in 2..n : l[i] \in LaterRecords} : n \in 0..MaxHomeworks}

\* parsed bodies of a response
Bodies ==
    {PyDict([homeworks |-> PyList(l)]) : l \in HomeworkLists}
    \cup {PyDict([homeworks |-> PyList(<<>>), current_date |-> PyInt(1)]),
          PyDict([homeworks |-> PyStr("hw1")]),
          PyDict([homeworks |-> PyInt(1)]),
          PyDict([homeworks |-> PyNone]),
          PyDict([current_date |-> PyInt(1)]),
          PyDict(EmptyDict),
          PyDict([error |-> PyStr("bad_request")]),
          PyDict([code |-> PyStr("not_authenticated")]),
          PyDict([error |-> PyStr("bad_request"), homeworks |-> PyList(<<>>)]),
          PyDict([code |-> PyInt(1), homeworks |-> PyList(<<>>)]),
          PyList(<<>>), PyNone, PyStr("homeworks"), PyInt(1)}

\* what response.json() raises on a body that is not JSON
UndecodableBodies ==
    {[t |-> "undecodable", cls |-> c] :
         c \in {"JSONDecodeError", "RequestsJSONDecodeError",
                "SimplejsonJSONDecodeError", "RequestsSimplejsonJSONDecodeError"}}

\* bodies of the responses whose status is not 200
ErrorStatusBodies ==
    {PyDict([homeworks |-> PyList(<<>>)]),
     PyDict([error |-> PyStr("bad_request")]),
     PyDict([code |-> PyStr("not_authenticated")]),
     [t |-> "undecodable", cls |-> "JSONDecodeError"]}

HttpOutcomes ==
    {[t |-> "raise", cls |-> c] :
         c \in {"Timeout", "ConnectionError", "RequestException"}}
    \cup {[t |-> "response", status_code |-> HTTP_OK, json |-> j] :
              j \in Bodies \cup UndecodableBodies}
    \cup {[t |-> "response", status_code |-> n, json |-> j] :
              n \in {404, 500}, j \in ErrorStatusBodies}

\* bot.send_message: delivers the message, or raises a TelegramError
BackendOutcomes == {"ok", "TelegramError", "NetworkError"}

\* telegram.Bot(token=...): builds the client, or raises
BotOutcomes == {"ok", "InvalidToken"}

(***************************************************************************)
(* State.                                                                  *)
(***************************************************************************)
VARIABLES
    tokens,          \* PRACTICUM_TOKEN, TELEGRAM_TOKEN, TELEGRAM_CHAT_ID
    today,           \* the date main starts on
    utcoffset,       \* the local zone of the process, seconds east of UTC
    pc,              \* the statement of main that runs next
    bot,             \* the telegram.Bot of main, PyNone before it is built
    timestamp,       \* main's timestamp, PyNone before it is computed
    current_status,  \* main's current_status, PyNone before line 138
    response,        \* main's response in this cycle
    homeworks,       \* main's homeworks in this cycle
    verdict,         \* main's verdict in this cycle
    error,           \* the exception being handled, or that left main
    \* observers: what the run did, never read by the program
    http,            \* what the GET of this cycle met
    prev_status,     \* current_status when this cycle began
    sends,           \* the send attempts of this cycle, in order
    from_dates,      \* the timestamps get_api_answer was called with
    gets,            \* calls of get_api_answer since the last sleep
    sleeps,          \* sleeps since the last call of get_api_answer
    slept,           \* seconds of the last sleep
    attempted,       \* text of the last verdict main tried to send
    delivered,       \* text of the last verdict the chat received
    last_reported,   \* class of the error the previous cycle reported, or ""
    scenario,        \* polls of Scenario the run has followed so far, or -1
    notified,        \* the messages the chat received in those polls
    lost,            \* the last verdict main tried to send did not arrive
    polled_before    \* the previous cycle formatted a verdict and had no error

vars == <<tokens, today, utcoffset, pc, bot, timestamp, current_status,
          response, homeworks, verdict, error, http, prev_status, sends, from_dates,
          gets, sleeps, slept, attempted, delivered, last_reported, scenario,
          notified, lost,
                   polled_before>>

NoError == Return(PyNone)
NoHttp == [t |-> "none"]

SendAttempt(kind, message, backend) ==
    [kind |-> kind, message |-> message, backend |-> backend]

\* the polls of the orchestrator scenario: the status of the one homework
\* each poll returns
Scenario == <<"reviewing", "reviewing", "approved">>
ScenarioName == "hw1"

\* the messages of a sequence of send attempts that reached the chat
RECURSIVE Received(_)
Received(attempts) ==
    IF attempts = <<>> THEN <<>>
    ELSE (IF attempts[1].backend = "ok" THEN <<attempts[1].message>> ELSE <<>>)
         \o Received(Tail(attempts))

\* the cycle that ends is the next poll of Scenario, and nothing failed in it
FollowsScenario ==
    /\ scenario >= 0
    /\ scenario < Len(Scenario)
    /\ ~error.raised
    /\ http.t = "response"
    /\ http.status_code = HTTP_OK
    /\ http.json =
           PyDict([homeworks |->
               PyList(<<PyDict([status |-> PyStr(Scenario[scenario + 1]),
                                homework_name |-> PyStr(ScenarioName)])>>)])

\* the notice a cycle tried to send, or ""
NoticeOf(attempts) ==
    IF \E i \in 1..Len(attempts) : attempts[i].kind = "notice"
    THEN attempts[CHOOSE i \in 1..Len(attempts) :
                      attempts[i].kind = "notice"].message
    ELSE ""

Init ==
    /\ tokens \in [1..3 -> TokenValues]
    /\ today \in Days
    /\ utcoffset \in ZoneOffsets
    /\ pc = "check_tokens"
    /\ bot = PyNone
    /\ timestamp = PyNone
    /\ current_status = PyNone
    /\ response = PyNone
    /\ homeworks = PyNone
    /\ verdict = PyNone
    /\ error = NoError
    /\ http = NoHttp
    /\ prev_status = PyNone
    /\ sends = <<>>
    /\ from_dates = {}
    /\ gets = 0
    /\ sleeps = 0
    /\ slept = 0
    /\ attempted = ""
    /\ delivered = ""
    /\ last_reported = ""
    /\ scenario = 0
    /\ notified = <<>>
    /\ lost = FALSE
    /\ polled_before = FALSE

(***************************************************************************)
(* main, lines 136-138: check_tokens(), then current_status = ''           *)
(***************************************************************************)
CheckTokens ==
    /\ pc = "check_tokens"
    /\ LET r == check_tokens(tokens) IN
       IF r.raised
       THEN /\ pc' = "exited"
            /\ error' = r
            /\ UNCHANGED <<current_status, prev_status>>
       ELSE /\ pc' = "make_bot"
            /\ current_status' = PyStr("")
            /\ prev_status' = PyStr("")
            /\ UNCHANGED error
    /\ UNCHANGED <<tokens, today, utcoffset,
                   bot, timestamp, response, homeworks, verdict,
                   http, sends, from_dates, gets, sleeps, slept, attempted,
                   delivered, last_reported, scenario, notified, lost,
                   polled_before>>

(***************************************************************************)
(* main, lines 139-145: the bot, then the timestamp: local midnight of the *)
(* date 30 days before today                                               *)
(***************************************************************************)
MakeBot ==
    /\ pc = "make_bot"
    /\ \E outcome \in BotOutcomes :
           IF outcome = "ok"
           THEN /\ bot' = PyStr("Bot")
                /\ timestamp' = PyInt(mktime(today - 30, utcoffset))
                /\ pc' = "get_api_answer"
                /\ UNCHANGED error
           ELSE /\ error' = RaiseCalledInstance(Raise(outcome, outcome))
                /\ pc' = "exited"
                /\ UNCHANGED <<bot, timestamp>>
    /\ UNCHANGED <<tokens, today, utcoffset,
                   current_status, response, homeworks, verdict,
                   http, prev_status, sends, from_dates, gets, sleeps, slept,
                   attempted, delivered, last_reported, scenario, notified, lost,
                   polled_before>>

(***************************************************************************)
(* main, line 149: response = get_api_answer(timestamp=timestamp)          *)
(***************************************************************************)
GetApiAnswer ==
    /\ pc = "get_api_answer"
    /\ \E h \in HttpOutcomes :
           LET r == get_api_answer(timestamp, h) IN
           /\ http' = h
           /\ IF r.raised
              THEN /\ error' = r
                   /\ pc' = "except"
                   /\ UNCHANGED response
              ELSE /\ response' = r.val
                   /\ pc' = "check_response"
                   /\ UNCHANGED error
    /\ from_dates' = from_dates \cup {timestamp}
    /\ gets' = gets + 1
    /\ sleeps' = 0
    /\ prev_status' = current_status
    /\ UNCHANGED <<tokens, today, utcoffset,
                   bot, timestamp, current_status, homeworks,
                   verdict, sends, slept, attempted, delivered, last_reported,
                   scenario, notified, lost,
                   polled_before>>

(***************************************************************************)
(* main, lines 150-151: homeworks = check_response(...); if homeworks:     *)
(***************************************************************************)
CheckResponse ==
    /\ pc = "check_response"
    /\ LET r == check_response(response) IN
       IF r.raised
       THEN /\ error' = r
            /\ pc' = "except"
            /\ UNCHANGED homeworks
       ELSE /\ homeworks' = r.val
            /\ pc' = IF Truthy(r.val) THEN "parse_status" ELSE "sleep"
            /\ UNCHANGED error
    /\ UNCHANGED <<tokens, today, utcoffset,
                   bot, timestamp, current_status, response,
                   verdict, http, prev_status, sends, from_dates, gets, sleeps,
                   slept, attempted, delivered, last_reported, scenario,
                   notified, lost,
                   polled_before>>

(***************************************************************************)
(* main, line 152: verdict = parse_status(homework=homeworks[0])           *)
(***************************************************************************)
ParseStatusOfLastRecord ==
    /\ pc = "parse_status"
    /\ LET r == parse_status(homeworks.l[Len(homeworks.l)]) IN
       IF r.raised
       THEN /\ error' = r
            /\ pc' = "except"
            /\ UNCHANGED verdict
       ELSE /\ verdict' = r.val
            /\ pc' = "compare"
            /\ UNCHANGED error
    /\ UNCHANGED <<tokens, today, utcoffset,
                   bot, timestamp, current_status, response,
                   homeworks, http, prev_status, sends, from_dates, gets,
                   sleeps, slept, attempted, delivered, last_reported, scenario,
                   notified, lost, polled_before>>

ParseStatus ==
    /\ pc = "parse_status"
    /\ LET r == parse_status(homeworks.l[1]) IN
       IF r.raised
       THEN /\ error' = r
            /\ pc' = "except"
            /\ UNCHANGED verdict
       ELSE /\ verdict' = r.val
            /\ pc' = "compare"
            /\ UNCHANGED error
    /\ UNCHANGED <<tokens, today, utcoffset,
                   bot, timestamp, current_status, response,
                   homeworks, http, prev_status, sends, from_dates, gets,
                   sleeps, slept, attempted, delivered, last_reported, scenario,
                   notified, lost,
                   polled_before>>

(***************************************************************************)
(* main, lines 153-154 and 156-157: if current_status != verdict:          *)
(*     current_status = verdict                                            *)
(***************************************************************************)
CompareAlwaysDiffers ==
    /\ pc = "compare"
    /\ current_status' = verdict
    /\ pc' = "send_message"
    /\ UNCHANGED <<tokens, today, utcoffset,
                   bot, timestamp, response, homeworks, verdict,
                   error, http, prev_status, sends, from_dates, gets, sleeps,
                   slept, attempted, delivered, last_reported, scenario,
                   notified, lost,
                   polled_before>>

CompareForgetsSend ==
    /\ pc = "compare"
    /\ IF current_status # verdict
       THEN current_status' = verdict
       ELSE UNCHANGED current_status
    /\ pc' = "sleep"
    /\ UNCHANGED <<tokens, today, utcoffset,
                   bot, timestamp, response, homeworks, verdict,
                   error, http, prev_status, sends, from_dates, gets, sleeps,
                   slept, attempted, delivered, last_reported, scenario,
                   notified, lost,
                   polled_before>>

CompareStatusOnly ==
    /\ pc = "compare"
    /\ IF ~Contains(current_status.s,
                    HOMEWORK_VERDICTS[homeworks.l[1].d["status"].s])
       THEN /\ current_status' = verdict
            /\ pc' = "send_message"
       ELSE /\ pc' = "sleep"
            /\ UNCHANGED current_status
    /\ UNCHANGED <<tokens, today, utcoffset,
                   bot, timestamp, response, homeworks, verdict,
                   error, http, prev_status, sends, from_dates, gets, sleeps,
                   slept, attempted, delivered, last_reported, scenario,
                   notified, lost, polled_before>>

Compare ==
    /\ pc = "compare"
    /\ IF current_status # verdict
       THEN /\ current_status' = verdict
            /\ pc' = "send_message"
       ELSE /\ pc' = "sleep"
            /\ UNCHANGED current_status
    /\ UNCHANGED <<tokens, today, utcoffset,
                   bot, timestamp, response, homeworks, verdict,
                   error, http, prev_status, sends, from_dates, gets, sleeps,
                   slept, attempted, delivered, last_reported, scenario,
                   notified, lost,
                   polled_before>>

(***************************************************************************)
(* main, line 155: send_message(bot, message=current_status)               *)
(***************************************************************************)
SendVerdict ==
    /\ pc = "send_message"
    /\ \E backend \in BackendOutcomes :
           LET r == send_message(backend, current_status.s) IN
           /\ sends' = Append(sends,
                              SendAttempt("verdict", current_status.s, backend))
           /\ attempted' = current_status.s
           /\ delivered' = IF backend = "ok" THEN current_status.s ELSE delivered
           /\ lost' = (backend # "ok")
           /\ IF r.raised
              THEN /\ error' = r
                   /\ pc' = "except"
              ELSE /\ pc' = "sleep"
                   /\ UNCHANGED error
    /\ UNCHANGED <<tokens, today, utcoffset,
                   bot, timestamp, current_status, response,
                   homeworks, verdict, http, prev_status, from_dates, gets,
                   sleeps, slept, last_reported, scenario, notified,
                   polled_before>>

(***************************************************************************)
(* main, lines 158-164: the except clauses of the cycle.  An exception     *)
(* raised by the send_message of line 164 leaves main.                     *)
(***************************************************************************)
HandleErrorSilently ==
    /\ pc = "except"
    /\ pc' = "sleep"
    /\ UNCHANGED <<tokens, today, utcoffset,
                   bot, timestamp, current_status, response,
                   homeworks, verdict, error, http, prev_status, sends,
                   from_dates, gets, sleeps, slept, attempted, delivered,
                   last_reported, scenario, notified, lost,
                   polled_before>>

HandleErrorThenContinue ==
    /\ pc = "except"
    /\ IF IsSubclass(error.cls, "TelegramError")
       THEN /\ pc' = "sleep"
            /\ UNCHANGED <<error, sends>>
       ELSE LET message == "Sboi v rabote programmy: " \o StrOfExc(error) IN
            \E backend \in BackendOutcomes :
                LET r == send_message(backend, message) IN
                /\ sends' = Append(sends, SendAttempt("notice", message, backend))
                /\ IF r.raised
                   THEN /\ error' = r
                        /\ pc' = "exited"
                   ELSE /\ pc' = "get_api_answer"
                        /\ UNCHANGED error
    /\ UNCHANGED <<tokens, today, utcoffset,
                   bot, timestamp, current_status, response,
                   homeworks, verdict, http, prev_status, from_dates, gets,
                   sleeps, slept, attempted, delivered, last_reported, scenario,
                   notified, lost,
                   polled_before>>

HandleErrorRestoresStatus ==
    /\ pc = "except"
    /\ current_status' = prev_status
    /\ IF IsSubclass(error.cls, "TelegramError")
       THEN /\ pc' = "sleep"
            /\ UNCHANGED <<error, sends>>
       ELSE LET message == "Sboi v rabote programmy: " \o StrOfExc(error) IN
            \E backend \in BackendOutcomes :
                LET r == send_message(backend, message) IN
                /\ sends' = Append(sends, SendAttempt("notice", message, backend))
                /\ IF r.raised
                   THEN /\ error' = r
                        /\ pc' = "exited"
                   ELSE /\ pc' = "sleep"
                        /\ UNCHANGED error
    /\ UNCHANGED <<tokens, today, utcoffset,
                   bot, timestamp, response, homeworks, verdict,
                   http, prev_status, from_dates, gets, sleeps, slept,
                   attempted, delivered, last_reported, scenario, notified, lost,
                   polled_before>>

HandleError ==
    /\ pc = "except"
    /\ IF IsSubclass(error.cls, "TelegramError")
       THEN /\ pc' = "sleep"
            /\ UNCHANGED <<error, sends>>
       ELSE LET message == "Sboi v rabote programmy: " \o StrOfExc(error) IN
            \E backend \in BackendOutcomes :
                LET r == send_message(backend, message) IN
                /\ sends' = Append(sends, SendAttempt("notice", message, backend))
                /\ IF r.raised
                   THEN /\ error' = r
                        /\ pc' = "exited"
                   ELSE /\ pc' = "sleep"
                        /\ UNCHANGED error
    /\ UNCHANGED <<tokens, today, utcoffset,
                   bot, timestamp, current_status, response,
                   homeworks, verdict, http, prev_status, from_dates, gets,
                   sleeps, slept, attempted, delivered, last_reported, scenario,
                   notified, lost,
                   polled_before>>

(***************************************************************************)
(* main, line 166: time.sleep(RETRY_PERIOD).  The locals of the cycle are  *)
(* assigned again before the next cycle reads them; they are cleared here, *)
(* and the observers of the cycle are closed.                              *)
(***************************************************************************)
SleepAdvancesTimestamp ==
    /\ pc = "sleep"
    /\ slept' = RETRY_PERIOD
    /\ sleeps' = sleeps + 1
    /\ gets' = 0
    /\ pc' = "get_api_answer"
    /\ timestamp' = PyInt(timestamp.i + RETRY_PERIOD)
    /\ response' = PyNone
    /\ homeworks' = PyNone
    /\ verdict' = PyNone
    /\ error' = NoError
    /\ http' = NoHttp
    /\ sends' = <<>>
    /\ prev_status' = current_status
    /\ last_reported' = IF NoticeOf(sends) # "" THEN error.cls ELSE ""
    /\ polled_before' = (~error.raised /\ verdict # PyNone)
    /\ IF FollowsScenario
       THEN /\ scenario' = scenario + 1
            /\ notified' = notified \o Received(sends)
       ELSE /\ scenario' = -1
            /\ notified' = <<>>
    /\ UNCHANGED <<tokens, today, utcoffset,
                   bot, current_status, from_dates, attempted,
                   delivered, lost>>

Sleep ==
    /\ pc = "sleep"
    /\ slept' = RETRY_PERIOD
    /\ sleeps' = sleeps + 1
    /\ gets' = 0
    /\ pc' = "get_api_answer"
    /\ response' = PyNone
    /\ homeworks' = PyNone
    /\ verdict' = PyNone
    /\ error' = NoError
    /\ http' = NoHttp
    /\ sends' = <<>>
    /\ prev_status' = current_status
    /\ last_reported' = IF NoticeOf(sends) # "" THEN error.cls ELSE ""
    /\ polled_before' = (~error.raised /\ verdict # PyNone)
    /\ IF FollowsScenario
       THEN /\ scenario' = scenario + 1
            /\ notified' = notified \o Received(sends)
       ELSE /\ scenario' = -1
            /\ notified' = <<>>
    /\ UNCHANGED <<tokens, today, utcoffset,
                   bot, timestamp, current_status, from_dates,
                   attempted, delivered, lost>>

Next ==
    \/ CheckTokens
    \/ MakeBot
    \/ GetApiAnswer
    \/ CheckResponse
    \/ ParseStatus
    \/ Compare
    \/ SendVerdict
    \/ HandleError
    \/ Sleep

Spec == Init /\ [][Next]_vars

(***************************************************************************)
(* What the claims read off a state.                                       *)
(***************************************************************************)
\* main has passed its startup: the bot exists and the cursor is computed
Started == bot # PyNone

\* the cycle has run to its end: it is about to sleep, or an error left main
CycleEnded == Started /\ pc \in {"sleep", "exited"}

\* the call of get_api_answer of this cycle raised
GetRaised == http # NoHttp /\ response = PyNone

\* the homework list of a 200 response with a well-formed body
PolledList == http.json.d["homeworks"].l

WellFormed ==
    /\ http.t = "response"
    /\ http.status_code = 200
    /\ http.json.t = "dict"
    /\ DOMAIN http.json.d \cap {"error", "code"} = {}
    /\ "homeworks" \in DOMAIN http.json.d
    /\ http.json.d["homeworks"].t = "list"

\* the first record of the polled list has both keys and a known status
FirstRecordKnown ==
    /\ PolledList # <<>>
    /\ {"status", "homework_name"} \subseteq DOMAIN PolledList[1].d
    /\ PolledList[1].d["status"].s \in {"approved", "reviewing", "rejected"}

VerdictText(name, status) ==
    "Izmenilsya status proverki raboty \"" \o name \o "\". "
        \o (CASE status = "approved" ->
                     "Rabota proverena: revyueru vsyo ponravilos. Ura!"
              [] status = "reviewing" -> "Rabota vzyata na proverku revyuerom."
              [] status = "rejected" ->
                     "Rabota proverena: u revyuera est zamechaniya.")

FirstVerdict ==
    VerdictText(PolledList[1].d["homework_name"].s, PolledList[1].d["status"].s)

\* the error of get_api_answer, check_response or parse_status in the cycle
\* that runs on http, or NoError
CycleFailure ==
    LET a == get_api_answer(timestamp, http) IN
    IF a.raised THEN a
    ELSE LET c == check_response(a.val) IN
         IF c.raised THEN c
         ELSE IF c.val.l = <<>> THEN NoError
         ELSE LET p == parse_status(c.val.l[1]) IN
              IF p.raised THEN p ELSE NoError

(***************************************************************************)
(* C1: in a cycle where fetch, validation, formatting and sending all      *)
(* succeed, the Notifier is invoked exactly once, with the verdict of      *)
(* homeworks[0], if and only if the list is non-empty and that verdict     *)
(* differs from current_status as the cycle began; otherwise nothing is    *)
(* sent and current_status is unchanged.  Polls reviewing, reviewing,      *)
(* approved of one homework, from current_status = "", produce exactly two *)
(* notifications: the reviewing text in the first poll, the approved text  *)
(* in the third.                                                           *)
(***************************************************************************)
C1_NotifyIffChanged ==
    /\ (pc = "sleep" /\ ~error.raised) =>
           /\ WellFormed
           /\ (PolledList # <<>> => FirstRecordKnown)
           /\ IF PolledList # <<>> /\ FirstVerdict # prev_status.s
              THEN /\ sends = <<SendAttempt("verdict", FirstVerdict, "ok")>>
                   /\ current_status = PyStr(FirstVerdict)
              ELSE /\ sends = <<>>
                   /\ current_status = prev_status
    /\ scenario = 1 =>
           notified = <<VerdictText(ScenarioName, "reviewing")>>
    /\ scenario = 2 =>
           notified = <<VerdictText(ScenarioName, "reviewing")>>
    /\ scenario = 3 =>
           notified = <<VerdictText(ScenarioName, "reviewing"),
                        VerdictText(ScenarioName, "approved")>>

\* the three polls of the scenario are done, the third cycle has slept
C1_Witness ==
    /\ scenario = Len(Scenario)
    /\ Len(notified) = 2
    /\ pc = "get_api_answer"

(***************************************************************************)
(* C2: when the messaging backend fails while send_message delivers a      *)
(* verdict, the error neither ends main's loop nor triggers a second send  *)
(* attempt in that cycle: the cycle makes exactly one send attempt.        *)
(***************************************************************************)
C2_OneAttemptWhenDeliveryFails ==
    (/\ sends # <<>>
     /\ sends[1].kind = "verdict"
     /\ sends[1].backend # "ok") =>
        /\ Len(sends) = 1
        /\ pc \in {"except", "sleep"}

(***************************************************************************)
(* C3: after startup no error propagates out of main, whatever fails in a  *)
(* cycle, the delivery of the failure notice included.                     *)
(***************************************************************************)
C3_NoErrorLeavesTheLoop == Started => pc # "exited"

(***************************************************************************)
(* C4: in a cycle where get_api_answer, check_response or parse_status     *)
(* fails, main attempts exactly one send, of the failure notice built from *)
(* that error's message, and leaves current_status unchanged; it does so   *)
(* whatever the previous cycle reported.                                   *)
(***************************************************************************)
C4_OneNoticePerFailedCycle ==
    (CycleEnded /\ CycleFailure.raised) =>
        /\ Len(sends) = 1
        /\ sends[1].kind = "notice"
        /\ sends[1].message = "Sboi v rabote programmy: " \o StrOfExc(CycleFailure)
        /\ Contains(sends[1].message, CycleFailure.msg)
        /\ current_status = prev_status

\* a second cycle in a row fails with a ResponseError and sends its notice
C4_Witness ==
    /\ pc = "sleep"
    /\ GetRaised
    /\ error.cls = "ResponseError"
    /\ last_reported = "ResponseError"
    /\ Len(sends) = 1
    /\ sends[1].kind = "notice"

(***************************************************************************)
(* C5: at every point of a run, current_status is the empty string or the  *)
(* text of the most recent verdict notification the chat received; it      *)
(* never holds a text that was not sent.  The point between the assignment *)
(* of line 154 and the send of line 155 is left out.                       *)
(***************************************************************************)
C5_StatusIsLastDelivered ==
    (current_status # PyNone /\ pc # "send_message") =>
        current_status.s \in {"", delivered}

(***************************************************************************)
(* C5 as amended: at every point of a run outside the assignment-send pair *)
(* of lines 154-155, current_status is the empty string (no send attempted *)
(* yet) or the text of the most recent verdict main attempted to send,     *)
(* delivered or not; between the two lines it is the text about to be      *)
(* attempted.                                                              *)
(***************************************************************************)
C5_StatusIsLastAttempted ==
    /\ (current_status # PyNone /\ pc # "send_message") =>
           /\ current_status.s = attempted
           /\ (sends = <<>> /\ attempted = "") => current_status.s = ""
    /\ pc = "send_message" =>
           /\ current_status = verdict
           /\ current_status.s # attempted

\* a verdict whose delivery failed is held as current_status
C5_Witness ==
    /\ pc = "sleep"
    /\ current_status.s # ""
    /\ current_status.s = attempted
    /\ current_status.s # delivered

(***************************************************************************)
(* C6: fetches and sleeps strictly alternate: a cycle calls get_api_answer *)
(* exactly once, and every cycle that completes sleeps exactly once, for   *)
(* RETRY_PERIOD = 600 seconds, before the next fetch.                      *)
(***************************************************************************)
C6_FetchAndSleepAlternate ==
    /\ gets <= 1
    /\ sleeps <= 1
    /\ (Started /\ pc # "get_api_answer") => (gets = 1 /\ sleeps = 0)
    /\ (pc = "get_api_answer" /\ from_dates # {}) =>
           (gets = 0 /\ sleeps = 1 /\ slept = 600)
    /\ (pc = "get_api_answer" /\ from_dates = {}) => (gets = 0 /\ sleeps = 0)

\* a cycle that reported an error has slept and the next fetch is due
C6_Witness ==
    /\ pc = "get_api_answer"
    /\ last_reported # ""
    /\ sleeps = 1
    /\ slept = RETRY_PERIOD

(***************************************************************************)
(* C7: the poll cursor is computed once, at local midnight of the date 30  *)
(* days before the start date, and no cycle changes it: every call of      *)
(* get_api_answer in a run receives the same timestamp.                    *)
(***************************************************************************)
C7_CursorIsFixed ==
    /\ Cardinality(from_dates) <= 1
    /\ Started =>
           /\ timestamp = PyInt(today * 86400 - 30 * 86400 - utcoffset)
           /\ from_dates \subseteq {timestamp}

\* a fetch after a cycle that failed and was reported
C7_Witness ==
    /\ pc \in {"check_response", "except"}
    /\ sends = <<>>
    /\ last_reported # ""
    /\ from_dates = {timestamp}

(***************************************************************************)
(* C8: check_tokens raises MissTokenError if and only if one of the three  *)
(* credentials is unset or empty, its message lists exactly the names of   *)
(* those, and a run with a missing credential builds no bot, and never     *)
(* fetches, sends or sleeps.                                               *)
(***************************************************************************)
MissingTokens == {i \in 1..3 : tokens[i] \in {PyNone, PyStr("")}}

C8_MissingCredentialsStopStartup ==
    /\ (pc = "exited" /\ ~Started /\ MissingTokens # {}) =>
           /\ error.cls = "MissTokenError"
           /\ \A i \in 1..3 :
                  Contains(error.msg, "'" \o TOKENS_NAMES[i] \o "'")
                      <=> i \in MissingTokens
    /\ (pc = "exited" /\ error.cls = "MissTokenError") => MissingTokens # {}
    /\ MissingTokens # {} =>
           /\ pc \in {"check_tokens", "exited"}
           /\ bot = PyNone
           /\ from_dates = {}
           /\ gets = 0
           /\ sends = <<>>
           /\ sleeps = 0
           /\ slept = 0
    /\ (MissingTokens = {} /\ pc # "check_tokens") => current_status # PyNone

\* startup stopped with two credentials missing, one unset and one empty
C8_Witness ==
    /\ pc = "exited"
    /\ error.cls = "MissTokenError"
    /\ tokens[1] = PyNone
    /\ tokens[3] = PyStr("")
    /\ MissingTokens = {1, 3}

(***************************************************************************)
(* C9: get_api_answer fails with ResponseError for every non-200 status,   *)
(* whatever the body, and for every 200 response whose parsed body has an  *)
(* `error` or a `code` key; for a 200 response whose parsed body is a      *)
(* mapping with neither key it returns that body unchanged.                *)
(***************************************************************************)
RejectedResponse ==
    /\ http.t = "response"
    /\ \/ http.status_code # 200
       \/ /\ http.json.t = "dict"
          /\ DOMAIN http.json.d \cap {"error", "code"} # {}

AcceptedResponse ==
    /\ http.t = "response"
    /\ http.status_code = 200
    /\ http.json.t = "dict"
    /\ DOMAIN http.json.d \cap {"error", "code"} = {}

C9_ResponseErrorOrBody ==
    /\ RejectedResponse =>
           /\ GetRaised
           /\ pc \in {"except", "sleep", "exited"}
           /\ pc \in {"except", "sleep"} => error.cls = "ResponseError"
    /\ AcceptedResponse =>
           /\ response = http.json
           /\ pc = "check_response" => ~error.raised

\* a 404 whose body would have been accepted has been refused
C9_Witness ==
    /\ pc = "except"
    /\ http.t = "response"
    /\ http.status_code = 404
    /\ http.json = PyDict([homeworks |-> PyList(<<>>)])
    /\ error.cls = "ResponseError"

(***************************************************************************)
(* C10: every failure of get_api_answer surfaces with the error kind the   *)
(* spec assigns to it: a 200 response whose body is not JSON fails with a  *)
(* ResponseError-class error, and a network-level failure of the GET       *)
(* (Timeout, ConnectionError, RequestException) is re-raised as an error   *)
(* of that same kind.                                                      *)
(***************************************************************************)
C10_FailuresKeepTheirKind ==
    (pc = "except" /\ GetRaised) =>
        /\ http.t = "raise" => error.cls = http.cls
        /\ (/\ http.t = "response"
            /\ http.status_code = 200
            /\ http.json.t = "undecodable") =>
               IsSubclass(error.cls, "ResponseError")

(***************************************************************************)
(* C11: parse_status raises KeyError if `status` or `homework_name` is     *)
(* absent, also when the status would be unknown; otherwise, for approved, *)
(* reviewing and rejected it returns the sentence with the homework name   *)
(* and exactly the verdict text of that status; otherwise it raises        *)
(* VerdictErrors.                                                          *)
(***************************************************************************)
\* the record line 152 passed to parse_status, once the call has been made
ParsedRecord == homeworks.l[1]

ParseStatusCalled ==
    /\ homeworks # PyNone
    /\ homeworks.l # <<>>
    /\ pc # "parse_status"

\* parse_status raised, and main has not left the handler of that error
ParseStatusRaised == ParseStatusCalled /\ verdict = PyNone

C11_ParseStatusByRecord ==
    ParseStatusCalled =>
        IF {"status", "homework_name"} \subseteq DOMAIN ParsedRecord.d
        THEN LET status == ParsedRecord.d["status"].s
                 name == ParsedRecord.d["homework_name"].s
             IN IF status \in {"approved", "reviewing", "rejected"}
                THEN /\ verdict = PyStr(VerdictText(name, status))
                     /\ Contains(verdict.s, "\"" \o name \o "\"")
                     /\ \A other \in {"approved", "reviewing", "rejected"} :
                            Contains(verdict.s, HOMEWORK_VERDICTS[other])
                                <=> other = status
                ELSE /\ ParseStatusRaised
                     /\ pc \in {"except", "sleep", "exited"}
                     /\ pc # "exited" => error.cls = "VerdictErrors"
        ELSE /\ ParseStatusRaised
             /\ pc \in {"except", "sleep", "exited"}
             /\ pc # "exited" => error.cls = "KeyError"

\* a record with an unknown status and no name has raised KeyError
C11_Witness ==
    /\ pc = "except"
    /\ ParseStatusRaised
    /\ ParsedRecord = PyDict([status |-> PyStr("unknown")])
    /\ error.cls = "KeyError"

(***************************************************************************)
(* check_response on its own: the function is called on any parsed value,  *)
(* a mapping or not, from the state main is in after line 149.             *)
(***************************************************************************)
InitCheckResponse ==
    /\ tokens = [i \in 1..3 |-> PyStr("secret")]
    /\ today \in Days
    /\ utcoffset \in ZoneOffsets
    /\ pc = "check_response"
    /\ bot = PyStr("Bot")
    /\ timestamp = PyInt(mktime(today - 30, utcoffset))
    /\ current_status = PyStr("")
    /\ response \in Bodies
    /\ homeworks = PyNone
    /\ verdict = PyNone
    /\ error = NoError
    /\ http = NoHttp
    /\ prev_status = PyStr("")
    /\ sends = <<>>
    /\ from_dates = {timestamp}
    /\ gets = 1
    /\ sleeps = 0
    /\ slept = 0
    /\ attempted = ""
    /\ delivered = ""
    /\ last_reported = ""
    /\ scenario = 0
    /\ notified = <<>>
    /\ lost = FALSE
    /\ polled_before = FALSE

SpecCheckResponse == InitCheckResponse /\ [][CheckResponse]_vars

(***************************************************************************)
(* C12: check_response raises TypeError when the response is not a mapping *)
(* (a list, None, a scalar), KeyError when it is a mapping without a       *)
(* `homeworks` key, TypeError when `homeworks` is not a list, and          *)
(* otherwise returns the value under `homeworks` itself, the same elements *)
(* in the same order.                                                      *)
(***************************************************************************)
C12_CheckResponseByShape ==
    pc # "check_response" =>
        IF response.t # "dict"
        THEN /\ pc = "except"
             /\ error.cls = "TypeError"
             /\ homeworks = PyNone
        ELSE IF "homeworks" \notin DOMAIN response.d
        THEN /\ pc = "except"
             /\ error.cls = "KeyError"
             /\ homeworks = PyNone
        ELSE IF response.d["homeworks"].t # "list"
        THEN /\ pc = "except"
             /\ error.cls = "TypeError"
             /\ homeworks = PyNone
        ELSE /\ pc \in {"parse_status", "sleep"}
             /\ ~error.raised
             /\ homeworks.t = "list"
             /\ Len(homeworks.l) = Len(response.d["homeworks"].l)
             /\ \A i \in 1..Len(homeworks.l) :
                    homeworks.l[i] = response.d["homeworks"].l[i]

\* a list of two different records has been returned as it was
C12_Witness ==
    /\ pc = "parse_status"
    /\ Len(homeworks.l) > 1
    /\ homeworks.l[1] # homeworks.l[Len(homeworks.l)]
    /\ homeworks = response.d["homeworks"]

(***************************************************************************)
(* C13: at most one notification per change: whatever cycles lie in        *)
(* between, no two consecutive verdict send attempts carry the same text,  *)
(* and current_status is assigned only in a cycle whose newly formatted    *)
(* verdict differs from its previous value.                                *)
(***************************************************************************)
C13_OneNotificationPerChange ==
    [][/\ (/\ Len(sends') > Len(sends)
           /\ sends'[Len(sends')].kind = "verdict") =>
              sends'[Len(sends')].message # attempted
       /\ (current_status # PyNone /\ current_status' # current_status) =>
              /\ pc = "compare"
              /\ verdict # current_status
              /\ current_status' = verdict]_vars

\* a verdict is attempted after a cycle that reported an error, and an
\* earlier verdict, of another text, had reached the chat
C13_Witness ==
    /\ sends # <<>>
    /\ sends[1].kind = "verdict"
    /\ sends[1].backend # "ok"
    /\ last_reported # ""
    /\ delivered # ""
    /\ delivered # sends[1].message

(***************************************************************************)
(* C14: current_status is assigned the new verdict before the send is      *)
(* attempted, so a changed verdict whose delivery fails is lost: it stays  *)
(* in current_status, and while later polls keep returning the same first  *)
(* record no later cycle attempts to send it again.                        *)
(***************************************************************************)
\* the last verdict main tried to send did not reach the chat
VerdictLost == attempted # "" /\ lost

C14_FailedVerdictIsLost ==
    /\ pc = "send_message" =>
           /\ current_status = verdict
           /\ \A i \in 1..Len(sends) : sends[i].kind # "verdict"
    /\ (/\ sends # <<>>
        /\ sends[1].kind = "verdict"
        /\ sends[1].backend # "ok") =>
           /\ VerdictLost
           /\ current_status = PyStr(sends[1].message)
    /\ (/\ pc = "sleep"
        /\ ~error.raised
        /\ VerdictLost
        /\ WellFormed
        /\ PolledList # <<>>
        /\ FirstRecordKnown
        /\ FirstVerdict = attempted) =>
           /\ sends = <<>>
           /\ current_status = PyStr(attempted)

\* a later poll returned the record of the lost verdict and nothing was sent
C14_Witness ==
    /\ pc = "sleep"
    /\ ~error.raised
    /\ VerdictLost
    /\ WellFormed
    /\ PolledList # <<>>
    /\ FirstRecordKnown
    /\ FirstVerdict = attempted
    /\ sends = <<>>

(***************************************************************************)
(* C15: only the first element of the homework list influences a cycle:    *)
(* runs whose polls agree on whether each list is empty and on each list's *)
(* first record, and differ in the remaining records, make the same send   *)
(* attempts, hold the same current_status and end in the same errors.      *)
(* Stated on one run: what a cycle sends, what it leaves in current_status *)
(* and the error it handles are given by the first record, current_status  *)
(* at the start of the cycle and what the backend did, with no reference   *)
(* to the records that follow.                                             *)
(***************************************************************************)
KeyErrorNotice ==
    "Sboi v rabote programmy: "
        \o "'Otsutstvie neobkhodimykh klyuchei status i homework_name'"

VerdictErrorNotice(status) ==
    "Sboi v rabote programmy: Neozhidannyi status domashnei raboty,"
        \o "obnaruzhennyi v otvete API " \o status

\* the backend outcomes of the send attempts of this cycle
Backends == [i \in 1..Len(sends) |-> sends[i].backend]

\* the send attempts of a cycle that formats `text` for a changed verdict
VerdictSends(text) ==
    IF Backends[1] = "ok"
    THEN <<SendAttempt("verdict", text, "ok")>>
    ELSE <<SendAttempt("verdict", text, Backends[1]),
           SendAttempt("notice",
                       "Sboi v rabote programmy: '" \o Backends[1]
                           \o "' object is not callable",
                       Backends[Len(sends)])>>

C15_OnlyFirstRecordCounts ==
    (CycleEnded /\ WellFormed /\ PolledList # <<>>) =>
        LET first == PolledList[1].d IN
        IF ~({"status", "homework_name"} \subseteq DOMAIN first)
        THEN /\ sends = <<SendAttempt("notice", KeyErrorNotice, Backends[1])>>
             /\ current_status = prev_status
             /\ pc = "sleep" => error.cls = "KeyError"
        ELSE IF first["status"].s \notin {"approved", "reviewing", "rejected"}
        THEN /\ sends = <<SendAttempt("notice",
                                      VerdictErrorNotice(first["status"].s),
                                      Backends[1])>>
             /\ current_status = prev_status
             /\ pc = "sleep" => error.cls = "VerdictErrors"
        ELSE LET text == VerdictText(first["homework_name"].s,
                                     first["status"].s)
             IN IF text = prev_status.s
                THEN /\ sends = <<>>
                     /\ current_status = prev_status
                     /\ pc = "sleep"
                     /\ ~error.raised
                ELSE /\ sends # <<>>
                     /\ sends = VerdictSends(text)
                     /\ current_status = PyStr(text)
                     /\ error.raised <=> Backends[1] # "ok"
                     /\ pc = "exited" <=> Backends[Len(sends)] # "ok"

\* a verdict was delivered from a list whose second record has no name
C15_Witness ==
    /\ pc = "sleep"
    /\ WellFormed
    /\ Len(PolledList) > 1
    /\ "homework_name" \notin DOMAIN PolledList[Len(PolledList)].d
    /\ Len(sends) = 1
    /\ sends[1].kind = "verdict"
    /\ sends[1].backend = "ok"

(***************************************************************************)
(* C16: change detection compares the whole sentence, homework name and    *)
(* verdict text, not the status alone: when two consecutive successful     *)
(* polls return first records with the same status and different           *)
(* homework_name, the second poll sends a notification; with the same      *)
(* status and the same homework_name it does not.                          *)
(***************************************************************************)
\* this cycle and the one before it both polled a first record with a known
\* status and ended without an error
TwoSuccessfulPolls ==
    /\ pc = "sleep"
    /\ ~error.raised
    /\ polled_before
    /\ WellFormed
    /\ FirstRecordKnown

C16_WholeSentenceIsCompared ==
    TwoSuccessfulPolls =>
        /\ \E n \in NameValues, st \in {"approved", "reviewing", "rejected"} :
               prev_status.s = VerdictText(n, st)
        /\ \A n \in NameValues :
               prev_status.s = VerdictText(n, PolledList[1].d["status"].s) =>
                   IF n # PolledList[1].d["homework_name"].s
                   THEN sends = <<SendAttempt("verdict", FirstVerdict, "ok")>>
                   ELSE sends = <<>>

\* the second poll has the status of the first and another homework_name,
\* and its notification was sent
C16_Witness ==
    /\ TwoSuccessfulPolls
    /\ \E n \in NameValues :
           /\ prev_status.s = VerdictText(n, PolledList[1].d["status"].s)
           /\ n # PolledList[1].d["homework_name"].s
    /\ Len(sends) = 1
    /\ sends[1].backend = "ok"

=============================================================================
